---- MODULE Spec2Model ----
(***************************************************************************)
(* The MiMalloc global-allocator adapter (src/src/lib.rs) together with    *)
(* the foreign heap it forwards to.  The adapter is four one-line          *)
(* forwards; the heap is the state they act on.                            *)
(*                                                                         *)
(* Addresses are positive integers, NULL is 0.  Memory contents are kept   *)
(* sparsely: heap.mem is the set of addresses that currently hold a        *)
(* non-zero byte, every other address holds 0.                             *)
(***************************************************************************)
EXTENDS Integers, FiniteSets, Sequences, TLC

VARIABLES
    features,   \* cargo features selected for the build
    build,      \* "unbuilt", "ok" or "error" (compile_error! fired)
    heap,       \* the foreign allocator: [sites, top, mem, blocks]
    owned,      \* handles the free-running client threads hold: [by, ptr, layout]
    last,       \* the adapter call (or client write) made by the latest step
    pc,         \* position of each #[test] function
    ptr         \* the local `ptr` of each #[test] function

vars == <<features, build, heap, owned, last, pc, ptr>>

NULL == 0

\* ---- bounds of the free-running model -------------------------------
MemSize == 3        \* the arena is the MemSize addresses 2..MemSize+1
MaxSize == 2        \* request sizes 1..MaxSize
TestThreads == 2    \* #[test] functions in flight at once

Threads == {"t1", "t2"}   \* client threads
\* the powers of two an address of the arena can be a multiple of
Aligns == {2^k : k \in 0..MemSize} \cap 1..(MemSize + 1)
Layouts == [size : 1..MaxSize, align : Aligns]
Sizes == 1..MaxSize

\* ---- the build-time feature guard ------------------------------------
Features == {"secure_1", "secure_2", "secure_3", "secure_full"}

CompileError_AllInner(f) ==
    \/ ("secure_full" \in f /\ ("secure_1" \in f /\ "secure_2" \in f /\ "secure_3" \in f))
    \/ ("secure_1" \in f /\ ("secure_full" \in f /\ "secure_2" \in f /\ "secure_3" \in f))
    \/ ("secure_2" \in f /\ ("secure_1" \in f /\ "secure_full" \in f /\ "secure_3" \in f))
    \/ ("secure_3" \in f /\ ("secure_1" \in f /\ "secure_2" \in f /\ "secure_full" \in f))

\* #[cfg(any(all(.., any(..)), ...))] compile_error!("Choose only one secure option!")
CompileError(f) ==
    \/ ("secure_full" \in f /\ ("secure_1" \in f \/ "secure_2" \in f \/ "secure_3" \in f))
    \/ ("secure_1" \in f /\ ("secure_full" \in f \/ "secure_2" \in f \/ "secure_3" \in f))
    \/ ("secure_2" \in f /\ ("secure_1" \in f \/ "secure_full" \in f \/ "secure_3" \in f))
    \/ ("secure_3" \in f /\ ("secure_1" \in f \/ "secure_2" \in f \/ "secure_full" \in f))

\* ---- the foreign allocator (libmimalloc_sys) -------------------------
Overlap(a1, n1, a2, n2) == a1 < a2 + n2 /\ a2 < a1 + n1

\* [a, a+n) lies in the arena and meets no live block other than those in `except`
Fits(h, a, n, except) ==
    /\ a >= 1
    /\ a + n - 1 <= h.top
    /\ \A b \in h.blocks \ except : ~Overlap(a, n, b.addr, b.size)

Candidates(h, size, alignment) ==
    {a \in h.sites : a % alignment = 0 /\ Fits(h, a, size, {})}

BlockAt(h, p) == {b \in h.blocks : b.addr = p}

\* memory m with [a, a+n) zero-filled
Zeroed(m, a, n) == {x \in m : x < a \/ x >= a + n}

\* memory m after memcpy(to, from, n)
Copied(m, from, to, n) ==
    Zeroed(m, to, n) \cup {to + (x - from) : x \in {y \in m : y >= from /\ y < from + n}}

Min(a, b) == IF a <= b THEN a ELSE b

\* TRUE iff some byte of [a, a+n) is non-zero
Dirty(m, a, n) == \E x \in m : x >= a /\ x < a + n

\* a free, aligned range of the arena becomes a block of the calling thread, its
\* bytes left as they are; or the request fails with NULL and nothing changes
mi_malloc_aligned(h, t, size, alignment) ==
    {[heap |-> [h EXCEPT !.blocks = @ \cup {[addr |-> a, size |-> size, by |-> t]}],
      ret |-> a] : a \in Candidates(h, size, alignment)}
    \cup {[heap |-> h, ret |-> NULL]}

\* as mi_malloc_aligned, with the block zero-filled
mi_zalloc_aligned(h, t, size, alignment) ==
    {[heap |-> [h EXCEPT !.blocks = @ \cup {[addr |-> a, size |-> size, by |-> t]},
                         !.mem = Zeroed(@, a, size)],
      ret |-> a] : a \in Candidates(h, size, alignment)}
    \cup {[heap |-> h, ret |-> NULL]}

\* free(NULL) is a no-op; freeing what is not a live block is undefined: any
\* of the live blocks may be lost
mi_free(h, p) ==
    IF p = NULL THEN {h}
    ELSE IF BlockAt(h, p) # {} THEN {[h EXCEPT !.blocks = @ \ BlockAt(h, p)]}
    ELSE {[h EXCEPT !.blocks = B] : B \in SUBSET h.blocks}

\* realloc(NULL, n) allocates; resizing what is not a live block is undefined;
\* a live block is resized where it is, or moved, or left alone with NULL returned
mi_realloc_aligned(h, t, p, newsize, alignment) ==
    IF p = NULL THEN mi_malloc_aligned(h, t, newsize, alignment)
    ELSE IF BlockAt(h, p) = {}
    THEN {[heap |-> [h EXCEPT !.blocks = B], ret |-> r] :
              B \in SUBSET h.blocks, r \in {NULL, p}}
    ELSE LET old == CHOOSE b \in BlockAt(h, p) : TRUE
             n == Min(old.size, newsize)
         IN  \* resized in place
             (IF p % alignment = 0 /\ Fits(h, p, newsize, {old})
              THEN {[heap |-> [h EXCEPT !.blocks = (@ \ {old}) \cup
                                         {[addr |-> p, size |-> newsize, by |-> t]}],
                     ret |-> p]}
              ELSE {})
             \cup \* moved: new block, memcpy, free of the old block
             {[heap |-> [h EXCEPT !.blocks = (@ \ {old}) \cup
                                   {[addr |-> a, size |-> newsize, by |-> t]},
                                  !.mem = Copied(@, p, a, n)],
               ret |-> a] : a \in Candidates(h, newsize, alignment)}
             \cup \* failed: the old block is untouched
             {[heap |-> h, ret |-> NULL]}

\* ---- the adapter: unsafe impl GlobalAlloc for MiMalloc ---------------
Call(fn, p, size, alignment) == [fn |-> fn, ptr |-> p, size |-> size, align |-> alignment]

\* mutant: size and alignment handed over in the wrong order
alloc_SwappedArgs(h, t, layout) ==
    {[heap |-> o.heap, ret |-> o.ret,
      calls |-> <<Call("mi_malloc_aligned", NULL, layout.align, layout.size)>>] :
        o \in mi_malloc_aligned(h, t, layout.align, layout.size)}

\* mutant: a failed request is tried a second time
alloc_Retry(h, t, layout) ==
    UNION {IF o.ret # NULL
           THEN {[heap |-> o.heap, ret |-> o.ret,
                  calls |-> <<Call("mi_malloc_aligned", NULL, layout.size, layout.align)>>]}
           ELSE {[heap |-> o2.heap, ret |-> o2.ret,
                  calls |-> <<Call("mi_malloc_aligned", NULL, layout.size, layout.align),
                              Call("mi_malloc_aligned", NULL, layout.size, layout.align)>>] :
                    o2 \in mi_malloc_aligned(o.heap, t, layout.size, layout.align)} :
           o \in mi_malloc_aligned(h, t, layout.size, layout.align)}

alloc(h, t, layout) ==
    {[heap |-> o.heap, ret |-> o.ret,
      calls |-> <<Call("mi_malloc_aligned", NULL, layout.size, layout.align)>>] :
        o \in mi_malloc_aligned(h, t, layout.size, layout.align)}

\* mutant: the non-zeroing primitive is called
alloc_zeroed_NoZero(h, t, layout) ==
    {[heap |-> o.heap, ret |-> o.ret,
      calls |-> <<Call("mi_malloc_aligned", NULL, layout.size, layout.align)>>] :
        o \in mi_malloc_aligned(h, t, layout.size, layout.align)}

alloc_zeroed(h, t, layout) ==
    {[heap |-> o.heap, ret |-> o.ret,
      calls |-> <<Call("mi_zalloc_aligned", NULL, layout.size, layout.align)>>] :
        o \in mi_zalloc_aligned(h, t, layout.size, layout.align)}

\* mutant: the block is released only when the layout's size is the block's size
dealloc_SizeChecked(h, t, p, layout) ==
    {[heap |-> h2, ret |-> NULL, calls |-> <<Call("mi_free", p, 0, 0)>>] :
        h2 \in IF \E b \in BlockAt(h, p) : b.size # layout.size THEN {h} ELSE mi_free(h, p)}

dealloc(h, t, p, layout) ==
    {[heap |-> h2, ret |-> NULL, calls |-> <<Call("mi_free", p, 0, 0)>>] :
        h2 \in mi_free(h, p)}

\* mutant: a new block is allocated and the old one freed, with no copy
realloc_NoCopy(h, t, p, layout, new_size) ==
    UNION {IF o.ret = NULL
           THEN {[heap |-> o.heap, ret |-> NULL,
                  calls |-> <<Call("mi_malloc_aligned", NULL, new_size, layout.align)>>]}
           ELSE {[heap |-> h2, ret |-> o.ret,
                  calls |-> <<Call("mi_malloc_aligned", NULL, new_size, layout.align),
                              Call("mi_free", p, 0, 0)>>] : h2 \in mi_free(o.heap, p)} :
           o \in mi_malloc_aligned(h, t, new_size, layout.align)}

\* mutant: the resize is asked for without the layout's alignment
realloc_Unaligned(h, t, p, layout, new_size) ==
    {[heap |-> o.heap, ret |-> o.ret,
      calls |-> <<Call("mi_realloc_aligned", p, new_size, 1)>>] :
        o \in mi_realloc_aligned(h, t, p, new_size, 1)}

\* mutant: the old block is freed when the resize fails
realloc_FreeOnFail(h, t, p, layout, new_size) ==
    UNION {IF o.ret # NULL
           THEN {[heap |-> o.heap, ret |-> o.ret,
                  calls |-> <<Call("mi_realloc_aligned", p, new_size, layout.align)>>]}
           ELSE {[heap |-> h2, ret |-> NULL,
                  calls |-> <<Call("mi_realloc_aligned", p, new_size, layout.align)>>] :
                    h2 \in mi_free(o.heap, p)} :
           o \in mi_realloc_aligned(h, t, p, new_size, layout.align)}

\* mutant: a new block is allocated and filled, and the old one never freed
realloc_LeaksOld(h, t, p, layout, new_size) ==
    {[heap |-> IF o.ret = NULL THEN o.heap
               ELSE [o.heap EXCEPT !.mem = Copied(@, p, o.ret, Min(layout.size, new_size))],
      ret |-> o.ret,
      calls |-> <<Call("mi_malloc_aligned", NULL, new_size, layout.align)>>] :
        o \in mi_malloc_aligned(h, t, new_size, layout.align)}

\* mutant: the foreign result is dropped and the old pointer returned
realloc_ReturnsOld(h, t, p, layout, new_size) ==
    {[heap |-> o.heap, ret |-> IF o.ret = NULL THEN NULL ELSE p,
      calls |-> <<Call("mi_realloc_aligned", p, new_size, layout.align)>>] :
        o \in mi_realloc_aligned(h, t, p, new_size, layout.align)}

realloc(h, t, p, layout, new_size) ==
    {[heap |-> o.heap, ret |-> o.ret,
      calls |-> <<Call("mi_realloc_aligned", p, new_size, layout.align)>>] :
        o \in mi_realloc_aligned(h, t, p, new_size, layout.align)}

\* ---- free-running client threads --------------------------------------
\* what the latest step did: the operation, the pointer it was given, what it
\* returned, the foreign functions it called in order, the (size, alignment) a
\* realloc handed to the foreign resize, and whether the range an allocation
\* returned held a non-zero byte just before the call, and whether the layout
\* given to dealloc differed from the layout the block was last sized with
NoArgs == [size |-> 0, align |-> 0]

ForeignArgs(op, o) ==
    IF op = "realloc" /\ Len(o.calls) > 0
    THEN [size |-> o.calls[Len(o.calls)].size, align |-> o.calls[Len(o.calls)].align]
    ELSE NoArgs

Last(op, p, o, dirty, stale) ==
    [op |-> op, ptr |-> p, ret |-> o.ret,
     fns |-> [i \in 1..Len(o.calls) |-> o.calls[i].fn],
     args |-> ForeignArgs(op, o), dirty |-> dirty, stale |-> stale]

Idle == [op |-> "none", ptr |-> NULL, ret |-> NULL, fns |-> <<>>, args |-> NoArgs,
         dirty |-> FALSE, stale |-> FALSE]

Handle(t, p, layout) == [by |-> t, ptr |-> p, layout |-> layout]

Alloc(t) ==
    /\ build = "ok"
    /\ \E layout \in Layouts : \E o \in alloc(heap, t, layout) :
        /\ heap' = o.heap
        /\ owned' = IF o.ret # NULL THEN owned \cup {Handle(t, o.ret, layout)} ELSE owned
        /\ last' = Last("alloc", NULL, o,
                        o.ret # NULL /\ Dirty(heap.mem, o.ret, layout.size), FALSE)
    /\ UNCHANGED <<features, build, pc, ptr>>

AllocZeroed(t) ==
    /\ build = "ok"
    /\ \E layout \in Layouts : \E o \in alloc_zeroed(heap, t, layout) :
        /\ heap' = o.heap
        /\ owned' = IF o.ret # NULL THEN owned \cup {Handle(t, o.ret, layout)} ELSE owned
        /\ last' = Last("alloc_zeroed", NULL, o,
                        o.ret # NULL /\ Dirty(heap.mem, o.ret, layout.size), FALSE)
    /\ UNCHANGED <<features, build, pc, ptr>>

Dealloc(t) ==
    /\ build = "ok"
    /\ \E hd \in {x \in owned : x.by = t} :
       \E layout \in {l \in Layouts : l.align = hd.layout.align} :
       \E o \in dealloc(heap, t, hd.ptr, layout) :
        /\ heap' = o.heap
        /\ owned' = owned \ {hd}
        /\ last' = Last("dealloc", hd.ptr, o, FALSE, layout # hd.layout)
    /\ UNCHANGED <<features, build, pc, ptr>>

Realloc(t) ==
    /\ build = "ok"
    /\ \E hd \in {x \in owned : x.by = t} : \E new_size \in Sizes :
       \E o \in realloc(heap, t, hd.ptr, hd.layout, new_size) :
        /\ heap' = o.heap
        /\ owned' = IF o.ret # NULL
                    THEN (owned \ {hd}) \cup
                         {Handle(t, o.ret, [size |-> new_size, align |-> hd.layout.align])}
                    ELSE owned
        /\ last' = Last("realloc", hd.ptr, o, FALSE, FALSE)
    /\ UNCHANGED <<features, build, pc, ptr>>

\* a client stores one byte into a block it holds
Write(t) ==
    /\ build = "ok"
    /\ \E hd \in {x \in owned : x.by = t} : \E i \in 0..(hd.layout.size - 1) :
       \E nonzero \in BOOLEAN :
        /\ nonzero # (hd.ptr + i \in heap.mem)
        /\ heap' = [heap EXCEPT !.mem = IF nonzero THEN @ \cup {hd.ptr + i}
                                                   ELSE @ \ {hd.ptr + i}]
        /\ last' = [Idle EXCEPT !.op = "write"]
    /\ UNCHANGED <<features, build, owned, pc, ptr>>

Init ==
    /\ features = {}
    /\ build = "ok"
    /\ heap = [sites |-> 2..(MemSize + 1), top |-> MemSize + 1, mem |-> {}, blocks |-> {}]
    /\ owned = {}
    /\ last = Idle
    /\ pc = <<>>
    /\ ptr = <<>>

Next ==
    \/ \E t \in Threads : Alloc(t)
    \/ \E t \in Threads : AllocZeroed(t)
    \/ \E t \in Threads : Dealloc(t)
    \/ \E t \in Threads : Realloc(t)
    \/ \E t \in Threads : Write(t)

Spec == Init /\ [][Next]_vars

\* ---- cargo test: the build, then the #[test] functions ----------------
SmallSize == 8
SmallAlign == 8
SmallNew == 16
BigSize == 1048576
BigAlign == 32
BigNew == 2097152

Tests == {"it_frees_allocated_memory", "it_frees_allocated_big_memory",
          "it_frees_zero_allocated_memory", "it_frees_zero_allocated_big_memory",
          "it_frees_reallocated_memory", "it_frees_reallocated_big_memory"}

Small == [size |-> SmallSize, align |-> SmallAlign]
Big == [size |-> BigSize, align |-> BigAlign]

\* each test: its layout, whether it allocates zeroed, the size it reallocs to (0: none)
TestProg(test) ==
    CASE test = "it_frees_allocated_memory" ->
            [layout |-> Small, zeroed |-> FALSE, new_size |-> 0]
      [] test = "it_frees_allocated_big_memory" ->
            [layout |-> Big, zeroed |-> FALSE, new_size |-> 0]
      [] test = "it_frees_zero_allocated_memory" ->
            [layout |-> Small, zeroed |-> TRUE, new_size |-> 0]
      [] test = "it_frees_zero_allocated_big_memory" ->
            [layout |-> Big, zeroed |-> TRUE, new_size |-> 0]
      [] test = "it_frees_reallocated_memory" ->
            [layout |-> Small, zeroed |-> FALSE, new_size |-> SmallNew]
      [] test = "it_frees_reallocated_big_memory" ->
            [layout |-> Big, zeroed |-> FALSE, new_size |-> BigNew]

\* the zero-allocate, resize, deallocate sequences, which no #[test] runs
Scenarios == {"it_frees_reallocated_memory", "it_frees_reallocated_big_memory",
              "zero_allocated_resize", "zero_allocated_big_resize"}

ScenarioProg(test) ==
    CASE test = "zero_allocated_resize" ->
            [layout |-> Small, zeroed |-> TRUE, new_size |-> SmallNew]
      [] test = "zero_allocated_big_resize" ->
            [layout |-> Big, zeroed |-> TRUE, new_size |-> BigNew]

Prog(test) == IF test \in Tests THEN TestProg(test) ELSE ScenarioProg(test)

\* the addresses the foreign heap places blocks at during the tests, and its last address
TestSites == {SmallSize, 2 * BigAlign, 2 * BigAlign + BigSize}
TestTop == 2 * BigAlign + BigSize + BigNew - 1

InFlight == {t \in DOMAIN pc : pc[t] \in {"realloc", "dealloc"}}

Build ==
    /\ build = "unbuilt"
    /\ build' = IF CompileError(features) THEN "error" ELSE "ok"
    /\ UNCHANGED <<features, heap, owned, last, pc, ptr>>

\* let ptr = alloc.alloc(layout);
TestAlloc(test) ==
    /\ build = "ok"
    /\ pc[test] = "start"
    /\ ~Prog(test).zeroed
    /\ Cardinality(InFlight) < TestThreads
    /\ \E o \in alloc(heap, test, Prog(test).layout) :
        /\ heap' = o.heap
        /\ ptr' = [ptr EXCEPT ![test] = o.ret]
    /\ pc' = [pc EXCEPT ![test] = IF Prog(test).new_size = 0 THEN "dealloc"
                                                                 ELSE "realloc"]
    /\ UNCHANGED <<features, build, owned, last>>

\* let ptr = alloc.alloc_zeroed(layout);
TestAllocZeroed(test) ==
    /\ build = "ok"
    /\ pc[test] = "start"
    /\ Prog(test).zeroed
    /\ Cardinality(InFlight) < TestThreads
    /\ \E o \in alloc_zeroed(heap, test, Prog(test).layout) :
        /\ heap' = o.heap
        /\ ptr' = [ptr EXCEPT ![test] = o.ret]
    /\ pc' = [pc EXCEPT ![test] = IF Prog(test).new_size = 0 THEN "dealloc"
                                                                 ELSE "realloc"]
    /\ UNCHANGED <<features, build, owned, last>>

\* let ptr = alloc.realloc(ptr, layout, new_size);
TestRealloc(test) ==
    /\ pc[test] = "realloc"
    /\ \E o \in realloc(heap, test, ptr[test], Prog(test).layout,
                        Prog(test).new_size) :
        /\ heap' = o.heap
        /\ ptr' = [ptr EXCEPT ![test] = o.ret]
    /\ pc' = [pc EXCEPT ![test] = "dealloc"]
    /\ UNCHANGED <<features, build, owned, last>>

\* alloc.dealloc(ptr, layout);
TestDealloc(test) ==
    /\ pc[test] = "dealloc"
    /\ \E o \in dealloc(heap, test, ptr[test], Prog(test).layout) :
        heap' = o.heap
    /\ pc' = [pc EXCEPT ![test] = "done"]
    /\ UNCHANGED <<features, build, owned, last, ptr>>

InitTests ==
    /\ features \in SUBSET Features
    /\ build = "unbuilt"
    /\ heap = [sites |-> TestSites, top |-> TestTop, mem |-> {}, blocks |-> {}]
    /\ owned = {}
    /\ last = Idle
    /\ pc = [t \in Tests |-> "start"]
    /\ ptr = [t \in Tests |-> NULL]

NextTests ==
    \/ Build
    \/ \E test \in DOMAIN pc : TestAlloc(test)
    \/ \E test \in DOMAIN pc : TestAllocZeroed(test)
    \/ \E test \in DOMAIN pc : TestRealloc(test)
    \/ \E test \in DOMAIN pc : TestDealloc(test)

SpecTests == InitTests /\ [][NextTests]_vars

\* the resize sequences alone, in a crate built without features
InitScenario ==
    /\ features = {}
    /\ build = "ok"
    /\ heap = [sites |-> TestSites, top |-> TestTop, mem |-> {}, blocks |-> {}]
    /\ owned = {}
    /\ last = Idle
    /\ pc = [t \in Scenarios |-> "start"]
    /\ ptr = [t \in Scenarios |-> NULL]

NextScenario ==
    \/ \E test \in DOMAIN pc : TestAlloc(test)
    \/ \E test \in DOMAIN pc : TestAllocZeroed(test)
    \/ \E test \in DOMAIN pc : TestRealloc(test)
    \/ \E test \in DOMAIN pc : TestDealloc(test)

SpecScenario == InitScenario /\ [][NextScenario]_vars

\* ---- properties of the free-running model ----------------------------
HandleAt(o, p) == {hd \in o : hd.ptr = p}

AllocFn(op) ==
    CASE op = "alloc" -> "mi_malloc_aligned"
      [] op = "alloc_zeroed" -> "mi_zalloc_aligned"
      [] op = "realloc" -> "mi_realloc_aligned"
      [] OTHER -> "mi_free"

\* C1: a non-null result of alloc is a multiple of the requested alignment, and
\* its block lies in the arena, spans at least the requested size and overlaps
\* no other live block.
C1_AllocAlignedDisjoint ==
    (last.op = "alloc" /\ last.ret # NULL) =>
        /\ HandleAt(owned, last.ret) # {}
        /\ \A hd \in HandleAt(owned, last.ret) :
            /\ hd.ptr % hd.layout.align = 0
            /\ hd.ptr >= 1
            /\ hd.ptr + hd.layout.size - 1 <= heap.top
            /\ \E b \in BlockAt(heap, hd.ptr) : b.size >= hd.layout.size
            /\ \A b \in heap.blocks :
                b.addr # hd.ptr => ~Overlap(hd.ptr, hd.layout.size, b.addr, b.size)
            /\ \A other \in owned \ {hd} :
                ~Overlap(hd.ptr, hd.layout.size, other.ptr, other.layout.size)

\* C1 witness: an aligned (alignment >= 2) block was handed out next to another live block
C1_Witness ==
    /\ last.op = "alloc"
    /\ last.ret # NULL
    /\ \E hd \in HandleAt(owned, last.ret) : hd.layout.align >= 2
    /\ Cardinality(heap.blocks) >= 2

\* C2: a non-null result of alloc_zeroed holds only zero bytes over its first
\* `size` bytes at the moment of return.
C2_ZeroedOnReturn ==
    (last.op = "alloc_zeroed" /\ last.ret # NULL) =>
        /\ HandleAt(owned, last.ret) # {}
        /\ \A hd \in HandleAt(owned, last.ret) : ~Dirty(heap.mem, hd.ptr, hd.layout.size)

\* C2 witness: alloc_zeroed returned a range that held a non-zero byte, left
\* there by an earlier block, just before the call
C2_Witness == last.op = "alloc_zeroed" /\ last.ret # NULL /\ last.dirty

\* C3: a successful realloc leaves the first min(old size, new size) bytes of
\* the returned block equal to the bytes the old block held at the call.
C3_Step ==
    (last'.op = "realloc" /\ last'.ret # NULL) =>
        /\ HandleAt(owned, last'.ptr) # {}
        /\ HandleAt(owned', last'.ret) # {}
        /\ \A hd \in HandleAt(owned, last'.ptr) : \A nh \in HandleAt(owned', last'.ret) :
            \A i \in 0..(Min(hd.layout.size, nh.layout.size) - 1) :
                (nh.ptr + i \in heap'.mem) <=> (hd.ptr + i \in heap.mem)

C3_ReallocKeepsPrefix == [][C3_Step]_vars

\* C3 witness: a realloc moved a block whose content was not all zero, and the
\* returned block is two bytes or more with a non-zero first byte
C3_Witness ==
    /\ last.op = "realloc"
    /\ last.ret # NULL
    /\ last.ret # last.ptr
    /\ last.args.size >= 2
    /\ last.ret \in heap.mem

\* C4: realloc makes one call of the foreign resize with the new size and the
\* alignment of the layout it was given, and a non-null result is a multiple
\* of that alignment.
C4_ReallocKeepsAlign ==
    (last.op = "realloc") =>
        /\ last.fns = <<"mi_realloc_aligned">>
        /\ LET p == IF last.ret # NULL THEN last.ret ELSE last.ptr
           IN  /\ HandleAt(owned, p) # {}
               /\ \A hd \in HandleAt(owned, p) :
                    /\ last.args.align = hd.layout.align
                    /\ last.ret # NULL => /\ last.args.size = hd.layout.size
                                          /\ last.ret % hd.layout.align = 0

\* C4 witness: a realloc with alignment >= 2 moved the block
C4_Witness ==
    /\ last.op = "realloc"
    /\ last.ret # NULL
    /\ last.ret # last.ptr
    /\ last.args.align >= 2

\* C5: a realloc that returns null leaves the heap as it was, and the handle it
\* was given is still held and still a live block of the same size.
C5_Step ==
    (last'.op = "realloc" /\ last'.ret = NULL) =>
        /\ heap' = heap
        /\ owned' = owned
        /\ HandleAt(owned', last'.ptr) # {}
        /\ \A hd \in HandleAt(owned', last'.ptr) :
            \E b \in BlockAt(heap', hd.ptr) : b.size = hd.layout.size

C5_FailedReallocKeepsBlock == [][C5_Step]_vars

\* C5 witness: a realloc failed on a block holding a non-zero byte
C5_Witness ==
    /\ last.op = "realloc"
    /\ last.ret = NULL
    /\ Dirty(heap.mem, last.ptr, 1)
    /\ BlockAt(heap, last.ptr) # {}

\* C6: alloc, alloc_zeroed and realloc return null after one call of their
\* foreign primitive, and a failed alloc or alloc_zeroed changes neither the
\* heap nor the handles held.
C6_Step ==
    (last'.op \in {"alloc", "alloc_zeroed", "realloc"} /\ last'.ret = NULL) =>
        /\ last'.fns = <<AllocFn(last'.op)>>
        /\ last'.op # "realloc" => (heap' = heap /\ owned' = owned)

C6_FailureIsOneCall == [][C6_Step]_vars

\* C6 witness: an alloc failed while blocks with non-zero content were live
C6_Witness ==
    /\ last.op = "alloc"
    /\ last.ret = NULL
    /\ heap.blocks # {}
    /\ heap.mem # {}

\* C8: dealloc releases the block of its pointer and nothing else, whatever
\* layout it is given: every layout leads to the one heap the step produced.
C8_Step ==
    (last'.op = "dealloc") =>
        /\ BlockAt(heap, last'.ptr) # {}
        /\ heap'.blocks = heap.blocks \ BlockAt(heap, last'.ptr)
        /\ heap'.mem = heap.mem
        /\ owned' = owned \ HandleAt(owned, last'.ptr)
        /\ \A l \in Layouts : \A t \in Threads :
            \A o \in dealloc(heap, t, last'.ptr, l) : o.heap = heap'

C8_DeallocIgnoresLayout == [][C8_Step]_vars

\* C8 witness: a dealloc was given a layout other than the block's, while
\* another block was live
C8_Witness == last.op = "dealloc" /\ last.stale /\ heap.blocks # {}

\* C9: the blocks the threads hold are live and pairwise disjoint; a dealloc or
\* realloc leaves every other held block and its content as it was; and the
\* range a dealloc released can be returned by a following alloc.
HeldAreLive ==
    \A hd \in owned :
        [addr |-> hd.ptr, size |-> hd.layout.size, by |-> hd.by] \in heap.blocks

HeldAreDisjoint ==
    \A h1 \in owned : \A h2 \in owned \ {h1} :
        ~Overlap(h1.ptr, h1.layout.size, h2.ptr, h2.layout.size)

C9_Step ==
    /\ HeldAreLive'
    /\ HeldAreDisjoint'
    /\ last'.op \in {"dealloc", "realloc"} =>
        \A hd \in owned \ HandleAt(owned, last'.ptr) :
            /\ hd \in owned'
            /\ \A i \in 0..(hd.layout.size - 1) :
                (hd.ptr + i \in heap'.mem) <=> (hd.ptr + i \in heap.mem)
    /\ last'.op = "dealloc" =>
        \A hd \in HandleAt(owned, last'.ptr) : \A t \in Threads :
            \E o \in alloc(heap', t, hd.layout) : o.ret = hd.ptr

C9_InterleavedBlocksDisjoint == [][C9_Step]_vars

\* C9 witness: both threads hold blocks, and the latest allocation returned a
\* range that an earlier, since released, block had written to
C9_Witness ==
    /\ last.op \in {"alloc", "alloc_zeroed"}
    /\ last.ret # NULL
    /\ last.dirty
    /\ \A t \in Threads : \E hd \in owned : hd.by = t

\* ---- properties of the build and of the test sequences ---------------
\* C7: the build is rejected exactly when two or more of the four hardening
\* features are selected; with none or one it succeeds.
C7_RejectsTwoOrMore ==
    (build # "unbuilt") => ((build = "error") <=> (Cardinality(features) >= 2))

\* C7 witness: a build with exactly two features selected was rejected
C7_Witness == build = "error" /\ Cardinality(features) = 2

BlocksOf(t) == {b \in heap.blocks : b.by = t}

Resizing == {t \in DOMAIN pc : Prog(t).new_size # 0}

\* the handle a sequence holds is its one live block, of the size last asked for
HoldsOnly(t, size) == BlocksOf(t) = {[addr |-> ptr[t], size |-> size, by |-> t]}

====
